---- MODULE Spec2Model ----
(***************************************************************************)
(* Large-object file-descriptor table of be-fsstubs.c: the cookies[] array *)
(* of LargeObjectDesc pointers, the private memory context fscxt, the      *)
(* stream entry points lo_open / lo_close / lo_read / lo_write / lo_lseek  *)
(* / lo_tell / lo_creat / lo_unlink and the end-of-transaction hook        *)
(* lo_commit.  The inversion store (inv_open, inv_close, ...) is the       *)
(* environment: each call                                                  *)
(* to it is recorded in `calls`, and what it returns is a nondeterministic *)
(* input of the action.                                                    *)
(***************************************************************************)
EXTENDS Integers, Sequences, FiniteSets, TLC

(* MAX_LOBJ_FDS is 256 in the source (line 52); the table is scaled down so *)
(* that a full table is reachable.                                          *)
MAX_LOBJ_FDS == 2

(* Descriptors that can be allocated in fscxt at the same time: enough to   *)
(* fill the table and to have inv_open succeed twice more on a full table.  *)
MaxDesc == MAX_LOBJ_FDS + 2

(* The null LargeObjectDesc pointer.                                        *)
NULL == 0

(* The null MemoryContext (static MemoryContext fscxt = NULL).              *)
NullContext == "NULL"

VARIABLES
    cookies,              \* cookies[fd]: NULL or a descriptor
    fscxt,                \* NULL or "Filesystem"
    CurrentMemoryContext, \* the active allocation context
    live,                 \* descriptors allocated in fscxt and not yet inv_close'd
    badClose,             \* inv_close was called on a descriptor that was not live
    hookCleared,          \* descriptors whose slot lo_commit cleared in this fscxt
    closedFd,             \* fds closed by lo_close and not returned by lo_open since
    calls,                \* the store calls made by the last operation, in order
    lastOp                \* the last operation, its arguments and its result

vars == <<cookies, fscxt, CurrentMemoryContext, live, badClose,
          hookCleared, closedFd, calls, lastOp>>

Slots == 0 .. (MAX_LOBJ_FDS - 1)
Descs == 1 .. MaxDesc

(* int32 arguments the callers pass as fd: below, inside and above range.   *)
FdInputs == -1 .. MAX_LOBJ_FDS

(* Status values the store returns from inv_read / inv_write / inv_seek /   *)
(* inv_tell.                                                                *)
StoreStatus == {-1, 4}

(* A call to a routine outside this file: the routine, the descriptor it is *)
(* given or returns, the allocation context active during the call, and    *)
(* its integer argument or result (an oid, a byte count, a umask).          *)
CallArg(fn, desc, cxt, arg) == [fn |-> fn, desc |-> desc, cxt |-> cxt, arg |-> arg]

Call(fn, desc, cxt) == CallArg(fn, desc, cxt, 0)

(* An entry point invocation: its arguments and inputs, what it returned    *)
(* and the elog(ERROR) it raised ("none" when it returned).  superuser,     *)
(* fileOk and n are the inputs of lo_import / lo_export: the result of      *)
(* superuser(), whether PathNameOpenFile succeeded, and the length of the   *)
(* file or object copied.                                                   *)
OpCopy(op, superuser, fileOk, storeOk, n, result, err) ==
    [op |-> op, fd |-> -1, flag |-> FALSE, storeOk |-> storeOk,
     result |-> result, err |-> err,
     superuser |-> superuser, fileOk |-> fileOk, n |-> n]

Op(op, fd, flag, storeOk, result, err) ==
    [op |-> op, fd |-> fd, flag |-> flag, storeOk |-> storeOk,
     result |-> result, err |-> err,
     superuser |-> FALSE, fileOk |-> FALSE, n |-> 0]

----------------------------------------------------------------------------
(* Support routines                                                         *)

(* newLOfd: the first NULL slot receives the cookie and its index is        *)
(* returned; -1 when there is none.                                         *)
newLOfd_highest(ck, lobjCookie) ==
    IF \E i \in Slots : ck[i] = NULL
    THEN LET i == CHOOSE j \in Slots :
                     ck[j] = NULL /\ \A k \in Slots : ck[k] = NULL => k <= j
         IN [cookies |-> [ck EXCEPT ![i] = lobjCookie], fd |-> i]
    ELSE [cookies |-> ck, fd |-> -1]

newLOfd_overwrite(ck, lobjCookie) ==
    IF \E i \in Slots : ck[i] = NULL
    THEN LET i == CHOOSE j \in Slots :
                     ck[j] = NULL /\ \A k \in Slots : ck[k] = NULL => j <= k
         IN [cookies |-> [ck EXCEPT ![i] = lobjCookie], fd |-> i]
    ELSE [cookies |-> [ck EXCEPT ![0] = lobjCookie], fd |-> 0]

newLOfd(ck, lobjCookie) ==
    IF \E i \in Slots : ck[i] = NULL
    THEN LET i == CHOOSE j \in Slots :
                     ck[j] = NULL /\ \A k \in Slots : ck[k] = NULL => j <= k
         IN [cookies |-> [ck EXCEPT ![i] = lobjCookie], fd |-> i]
    ELSE [cookies |-> ck, fd |-> -1]

(* deleteLOfd: cookies[fd] = NULL.                                          *)
deleteLOfd_none(ck, fd) == ck

deleteLOfd_first(ck, fd) == [ck EXCEPT ![0] = NULL]

deleteLOfd(ck, fd) == [ck EXCEPT ![fd] = NULL]

(* The two checks every stream entry point starts with: the range of fd,    *)
(* then the slot.  0 when the fd passes, else the value after the elog.     *)
CheckFd_noslot(ck, fd) ==
    IF fd < 0 \/ fd >= MAX_LOBJ_FDS THEN -2 ELSE 0

CheckFd(ck, fd) ==
    IF fd < 0 \/ fd >= MAX_LOBJ_FDS THEN -2
    ELSE IF ck[fd] = NULL THEN -3
    ELSE 0

ErrOf(code) ==
    IF code = -2 THEN "out of range"
    ELSE IF code = -3 THEN "invalid large obj descriptor"
    ELSE "none"


(* The value PG_RETURN_OID(InvalidOid) returns.                             *)
InvalidOid == 0

(* Object identifiers the store assigns (RelationGetRelid).                 *)
Oids == {1, 2}

(* The object a descriptor is open on (lobjDesc->heap_r): a descriptor      *)
(* carries the identity of its object.                                      *)
OidOf(desc) == (desc % 2) + 1

----------------------------------------------------------------------------
Init ==
    /\ cookies = [i \in Slots |-> NULL]
    /\ fscxt = NullContext
    /\ CurrentMemoryContext = "TransactionCommandContext"
    /\ live = {}
    /\ badClose = FALSE
    /\ hookCleared = {}
    /\ closedFd = {}
    /\ calls = << >>
    /\ lastOp = Op("init", -1, FALSE, FALSE, 0, "none")

(* AllocSetContextCreate when fscxt is NULL: the new context holds no       *)
(* descriptor yet.                                                          *)
CxtLive_fresh == {}

CxtLive == IF fscxt = NullContext THEN {} ELSE live
CxtHookCleared == IF fscxt = NullContext THEN {} ELSE hookCleared

(* lo_open: create fscxt on first use, switch to it, inv_open, then either  *)
(* return -1 (lookup failed) or register the descriptor with newLOfd and    *)
(* return what newLOfd returned.  The old context is restored on both paths.*)
(* desc is the descriptor inv_open allocates: any one not in use.           *)
lo_open(lobjId, storeOk, desc) ==
    LET currentContext == CurrentMemoryContext
        lobjDesc == IF storeOk THEN desc ELSE NULL
        r == newLOfd(cookies, lobjDesc)
    IN /\ IF storeOk THEN desc \in Descs \ CxtLive /\ OidOf(desc) = lobjId
          ELSE desc = NULL
       /\ fscxt' = "Filesystem"
       /\ calls' = << CallArg("inv_open", lobjDesc, "Filesystem", lobjId) >>
       /\ hookCleared' = CxtHookCleared
       /\ CurrentMemoryContext' = currentContext
       /\ UNCHANGED badClose
       /\ IF lobjDesc = NULL
          THEN /\ lastOp' = Op("lo_open", -1, FALSE, FALSE, -1, "none")
               /\ live' = CxtLive
               /\ UNCHANGED <<cookies, closedFd>>
          ELSE /\ cookies' = r.cookies
               /\ live' = CxtLive \cup {lobjDesc}
               /\ closedFd' = closedFd \ {r.fd}
               /\ lastOp' = Op("lo_open", r.fd, FALSE, TRUE, r.fd, "none")

(* lo_close: the two fd checks, then inv_close(cookies[fd]) inside fscxt    *)
(* and deleteLOfd(fd).                                                      *)
lo_close(fd) ==
    LET code == CheckFd(cookies, fd)
        currentContext == CurrentMemoryContext
    IN IF code # 0
       THEN /\ lastOp' = Op("lo_close", fd, FALSE, FALSE, code, ErrOf(code))
            /\ calls' = << >>
            /\ UNCHANGED <<cookies, fscxt, CurrentMemoryContext, live, badClose,
                           hookCleared, closedFd>>
       ELSE /\ calls' = << Call("inv_close", cookies[fd], fscxt) >>
            /\ live' = live \ {cookies[fd]}
            /\ badClose' = (badClose \/ cookies[fd] \notin live)
            /\ cookies' = deleteLOfd(cookies, fd)
            /\ closedFd' = closedFd \cup {fd}
            /\ CurrentMemoryContext' = currentContext
            /\ lastOp' = Op("lo_close", fd, FALSE, FALSE, 0, "none")
            /\ UNCHANGED <<fscxt, hookCleared>>

(* The body lo_read, lo_write and lo_lseek share: the two fd checks, then   *)
(* the store routine on cookies[fd] inside fscxt; its status is returned.   *)
Forward(op, fn, fd, status) ==
    LET code == CheckFd(cookies, fd)
        currentContext == CurrentMemoryContext
    IN /\ IF code # 0
          THEN /\ lastOp' = Op(op, fd, FALSE, FALSE, code, ErrOf(code))
               /\ calls' = << >>
               /\ UNCHANGED CurrentMemoryContext
          ELSE /\ calls' = << Call(fn, cookies[fd], fscxt) >>
               /\ CurrentMemoryContext' = currentContext
               /\ lastOp' = Op(op, fd, FALSE, FALSE, status, "none")
       /\ UNCHANGED <<cookies, fscxt, live, badClose, hookCleared, closedFd>>

lo_read(fd, status) == Forward("lo_read", "inv_read", fd, status)

lo_write(fd, status) == Forward("lo_write", "inv_write", fd, status)

lo_lseek(fd, status) == Forward("lo_lseek", "inv_seek", fd, status)

(* lo_tell: the two fd checks, then inv_tell(cookies[fd]) without a context *)
(* switch.                                                                  *)
lo_tell(fd, status) ==
    LET code == CheckFd(cookies, fd)
    IN /\ IF code # 0
          THEN /\ lastOp' = Op("lo_tell", fd, FALSE, FALSE, code, ErrOf(code))
               /\ calls' = << >>
          ELSE /\ calls' = << Call("inv_tell", cookies[fd], CurrentMemoryContext) >>
               /\ lastOp' = Op("lo_tell", fd, FALSE, FALSE, status, "none")
       /\ UNCHANGED <<cookies, fscxt, CurrentMemoryContext, live, badClose,
                      hookCleared, closedFd>>

lo_creat_keepsHandle(storeOk, desc, lobjId) ==
    LET lobjDesc == IF storeOk THEN desc ELSE NULL
        r == newLOfd(cookies, lobjDesc)
    IN /\ IF storeOk THEN desc \in Descs \ CxtLive /\ lobjId = OidOf(desc)
          ELSE desc = NULL
       /\ fscxt' = "Filesystem"
       /\ hookCleared' = CxtHookCleared
       /\ UNCHANGED <<CurrentMemoryContext, badClose, closedFd>>
       /\ IF lobjDesc = NULL
          THEN /\ calls' = << Call("inv_create", NULL, "Filesystem") >>
               /\ live' = CxtLive
               /\ lastOp' = Op("lo_creat", -1, FALSE, FALSE, InvalidOid, "none")
               /\ UNCHANGED cookies
          ELSE /\ calls' = << Call("inv_create", lobjDesc, "Filesystem") >>
               /\ live' = CxtLive \cup {lobjDesc}
               /\ cookies' = r.cookies
               /\ lastOp' = Op("lo_creat", -1, FALSE, TRUE, lobjId, "none")

(* lo_creat: create fscxt on first use, inv_create inside it; InvalidOid    *)
(* when that fails, else the new relation's oid after inv_close.  No slot   *)
(* is touched.                                                              *)
lo_creat(storeOk, desc, lobjId) ==
    LET currentContext == CurrentMemoryContext
        lobjDesc == IF storeOk THEN desc ELSE NULL
    IN /\ IF storeOk THEN desc \in Descs \ CxtLive /\ lobjId = OidOf(desc)
          ELSE desc = NULL
       /\ fscxt' = "Filesystem"
       /\ live' = CxtLive
       /\ hookCleared' = CxtHookCleared
       /\ CurrentMemoryContext' = currentContext
       /\ IF lobjDesc = NULL
          THEN /\ calls' = << Call("inv_create", NULL, "Filesystem") >>
               /\ lastOp' = Op("lo_creat", -1, FALSE, FALSE, InvalidOid, "none")
          ELSE /\ calls' = << Call("inv_create", lobjDesc, "Filesystem"),
                              Call("inv_close", lobjDesc, "Filesystem") >>
               /\ lastOp' = Op("lo_creat", -1, FALSE, TRUE, lobjId, "none")
       /\ UNCHANGED <<cookies, badClose, closedFd>>

lo_unlink_cleanup(lobjId, status) ==
    /\ calls' = << CallArg("inv_drop", NULL, CurrentMemoryContext, lobjId) >>
    /\ lastOp' = Op("lo_unlink", -1, FALSE, FALSE, status, "none")
    /\ cookies' = [i \in Slots |->
                      IF cookies[i] # NULL /\ OidOf(cookies[i]) = lobjId
                      THEN NULL ELSE cookies[i]]
    /\ UNCHANGED <<fscxt, CurrentMemoryContext, live, badClose,
                   hookCleared, closedFd>>

(* lo_unlink: inv_drop(lobjId), no context switch, no slot touched.         *)
lo_unlink(lobjId, status) ==
    /\ calls' = << CallArg("inv_drop", NULL, CurrentMemoryContext, lobjId) >>
    /\ lastOp' = Op("lo_unlink", -1, FALSE, FALSE, status, "none")
    /\ UNCHANGED <<cookies, fscxt, CurrentMemoryContext, live, badClose,
                   hookCleared, closedFd>>

(* The loop of lo_commit from slot i on: for each non-NULL slot,            *)
(* inv_cleanindex when committing, then the slot is set to NULL.            *)
RECURSIVE CommitLoop_always(_, _, _, _)
CommitLoop_always(ck, isCommit, cxt, i) ==
    IF i >= MAX_LOBJ_FDS THEN [cookies |-> ck, calls |-> << >>]
    ELSE IF ck[i] # NULL
         THEN LET rest == CommitLoop_always([ck EXCEPT ![i] = NULL], isCommit, cxt, i + 1)
              IN [cookies |-> rest.cookies,
                  calls |-> << Call("inv_cleanindex", ck[i], cxt) >> \o rest.calls]
         ELSE CommitLoop_always(ck, isCommit, cxt, i + 1)

RECURSIVE CommitLoop_short(_, _, _, _)
CommitLoop_short(ck, isCommit, cxt, i) ==
    IF i >= MAX_LOBJ_FDS - 1 THEN [cookies |-> ck, calls |-> << >>]
    ELSE IF ck[i] # NULL
         THEN LET rest == CommitLoop_short([ck EXCEPT ![i] = NULL], isCommit, cxt, i + 1)
              IN [cookies |-> rest.cookies,
                  calls |-> (IF isCommit
                             THEN << Call("inv_cleanindex", ck[i], cxt) >>
                             ELSE << >>) \o rest.calls]
         ELSE CommitLoop_short(ck, isCommit, cxt, i + 1)

RECURSIVE CommitLoop(_, _, _, _)
CommitLoop(ck, isCommit, cxt, i) ==
    IF i >= MAX_LOBJ_FDS THEN [cookies |-> ck, calls |-> << >>]
    ELSE IF ck[i] # NULL
         THEN LET rest == CommitLoop([ck EXCEPT ![i] = NULL], isCommit, cxt, i + 1)
              IN [cookies |-> rest.cookies,
                  calls |-> (IF isCommit
                             THEN << Call("inv_cleanindex", ck[i], cxt) >>
                             ELSE << >>) \o rest.calls]
         ELSE CommitLoop(ck, isCommit, cxt, i + 1)

(* lo_commit: nothing when fscxt is NULL; else the loop inside fscxt, then  *)
(* MemoryContextDelete(fscxt), which frees every descriptor allocated in    *)
(* it, and fscxt = NULL.                                                    *)
lo_commit(isCommit) ==
    IF fscxt = NullContext
    THEN /\ calls' = << >>
         /\ lastOp' = Op("lo_commit", -1, isCommit, FALSE, 0, "none")
         /\ UNCHANGED <<cookies, fscxt, CurrentMemoryContext, live, badClose,
                        hookCleared, closedFd>>
    ELSE LET currentContext == CurrentMemoryContext
             r == CommitLoop(cookies, isCommit, fscxt, 0)
         IN /\ cookies' = r.cookies
            /\ calls' = r.calls
            /\ hookCleared' = hookCleared \cup
                   {cookies[i] : i \in {j \in Slots : cookies[j] # r.cookies[j]}}
            /\ live' = {}
            /\ CurrentMemoryContext' = currentContext
            /\ fscxt' = NullContext
            /\ lastOp' = Op("lo_commit", -1, isCommit, FALSE, 0, "none")
            /\ UNCHANGED <<badClose, closedFd>>

Next ==
    \/ \E lobjId \in Oids, storeOk \in BOOLEAN, desc \in Descs \cup {NULL} :
           lo_open(lobjId, storeOk, desc)
    \/ \E fd \in FdInputs : lo_close(fd)
    \/ \E fd \in FdInputs, status \in StoreStatus : lo_read(fd, status)
    \/ \E fd \in FdInputs, status \in StoreStatus : lo_write(fd, status)
    \/ \E fd \in FdInputs, status \in StoreStatus : lo_lseek(fd, status)
    \/ \E fd \in FdInputs, status \in StoreStatus : lo_tell(fd, status)
    \/ \E storeOk \in BOOLEAN, desc \in Descs \cup {NULL}, lobjId \in Oids :
           lo_creat(storeOk, desc, lobjId)
    \/ \E lobjId \in Oids, status \in StoreStatus : lo_unlink(lobjId, status)
    \/ \E isCommit \in BOOLEAN : lo_commit(isCommit)

Spec == Init /\ [][Next]_vars

(* lo_commit(true) when inv_cleanindex does not return for the descriptor   *)
(* of slot failAt but raises elog(ERROR): control leaves lo_commit inside   *)
(* the loop, after the slots below failAt were handled and before line 517  *)
(* clears slot failAt; lines 521-525 are not reached.                       *)
lo_commit_cleanindex_error(failAt) ==
    LET below == [i \in Slots |-> IF i < failAt THEN cookies[i] ELSE NULL]
        r == CommitLoop(below, TRUE, fscxt, 0)
    IN /\ fscxt # NullContext
       /\ cookies[failAt] # NULL
       /\ cookies' = [i \in Slots |-> IF i < failAt THEN NULL ELSE cookies[i]]
       /\ calls' = r.calls \o << Call("inv_cleanindex", cookies[failAt], fscxt) >>
       /\ hookCleared' = hookCleared \cup
              {cookies[i] : i \in {j \in Slots : j < failAt /\ cookies[j] # NULL}}
       /\ CurrentMemoryContext' = fscxt
       /\ lastOp' = Op("lo_commit", -1, TRUE, FALSE, 0, "inv_cleanindex error")
       /\ UNCHANGED <<fscxt, live, badClose, closedFd>>

----------------------------------------------------------------------------
(* Import / export                                                          *)

(* #define BUFSIZE 1024                                                     *)
BUFSIZE == 1024

(* ALLOW_DANGEROUS_LO_FUNCTIONS is not defined by this file: the superuser  *)
(* checks of lo_import and lo_export are compiled in.                       *)
ALLOW_DANGEROUS_LO_FUNCTIONS == FALSE

(* umask((mode_t) 0022), and the backend's normal 077 umask it replaces.    *)
ExportUmask == 18
BackendUmask == 63

(* Lengths of the files imported and of the objects exported.               *)
CopySizes == {0, 1, 1024, 2048, 5000}

(* Which write of a copy loop is short (0: none), and which FileRead of     *)
(* lo_import returns -1 (0: none).                                          *)
ShortAt == {0, 2}
ReadFailAt == {0, 2}

(* The descriptor lo_import and lo_export get from the store.  It is        *)
(* allocated in the caller's context, not in fscxt, so it is none of the    *)
(* descriptors of fscxt.                                                    *)
CopyDesc == MaxDesc + 1

Min(a, b) == IF a < b THEN a ELSE b

(* The copy loop of lo_import from the k-th FileRead on, with `remaining`   *)
(* bytes of the file unread: FileRead(fd, buf, BUFSIZE), stop when it       *)
(* returns 0 or less, else inv_write(lobj, buf, nbytes) and elog(ERROR)     *)
(* when fewer than nbytes were written.                                     *)
ImportLoop_once(remaining, k, shortAt, readFailAt, cxt) ==
    LET nbytes == IF k = readFailAt THEN -1 ELSE Min(BUFSIZE, remaining)
        rd == CallArg("FileRead", NULL, cxt, nbytes)
        wr == CallArg("inv_write", CopyDesc, cxt, nbytes)
    IN IF nbytes <= 0 THEN [calls |-> << rd >>, ok |-> TRUE]
       ELSE IF k = shortAt THEN [calls |-> << rd, wr >>, ok |-> FALSE]
       ELSE [calls |-> << rd, wr >>, ok |-> TRUE]

RECURSIVE ImportLoop(_, _, _, _, _)
ImportLoop(remaining, k, shortAt, readFailAt, cxt) ==
    LET nbytes == IF k = readFailAt THEN -1 ELSE Min(BUFSIZE, remaining)
        rd == CallArg("FileRead", NULL, cxt, nbytes)
        wr == CallArg("inv_write", CopyDesc, cxt, nbytes)
    IN IF nbytes <= 0 THEN [calls |-> << rd >>, ok |-> TRUE]
       ELSE IF k = shortAt THEN [calls |-> << rd, wr >>, ok |-> FALSE]
       ELSE LET rest == ImportLoop(remaining - nbytes, k + 1, shortAt,
                                   readFailAt, cxt)
            IN [calls |-> << rd, wr >> \o rest.calls, ok |-> rest.ok]

(* The copy loop of lo_export: inv_read(lobj, buf, BUFSIZE), stop when it   *)
(* returns 0 or less, else FileWrite(fd, buf, nbytes) and elog(ERROR) when  *)
(* fewer than nbytes were written.                                          *)
RECURSIVE ExportLoop(_, _, _, _)
ExportLoop(remaining, k, shortAt, cxt) ==
    LET nbytes == Min(BUFSIZE, remaining)
        rd == CallArg("inv_read", CopyDesc, cxt, nbytes)
        wr == CallArg("FileWrite", NULL, cxt, nbytes)
    IN IF nbytes <= 0 THEN [calls |-> << rd >>, ok |-> TRUE]
       ELSE IF k = shortAt THEN [calls |-> << rd, wr >>, ok |-> FALSE]
       ELSE LET rest == ExportLoop(remaining - nbytes, k + 1, shortAt, cxt)
            IN [calls |-> << rd, wr >> \o rest.calls, ok |-> rest.ok]

(* The superuser check at the head of lo_import and lo_export.              *)
Permitted_always(superuser) == TRUE

Permitted(superuser) == ALLOW_DANGEROUS_LO_FUNCTIONS \/ superuser

(* lo_import: the superuser check, PathNameOpenFile read-only, inv_create,  *)
(* the copy loop, FileClose and inv_close; the new object's oid is          *)
(* returned.  Each failure is an elog(ERROR), which ends the function       *)
(* there.  No context switch is made and fscxt is not touched.              *)
lo_import(superuser, fileOk, n, storeOk, lobjOid, shortAt, readFailAt) ==
    LET cxt == CurrentMemoryContext
        open == CallArg("PathNameOpenFile", NULL, cxt, IF fileOk THEN 1 ELSE -1)
        create == Call("inv_create", IF storeOk THEN CopyDesc ELSE NULL, cxt)
        loop == ImportLoop(n, 1, shortAt, readFailAt, cxt)
    IN /\ IF ~Permitted(superuser)
          THEN /\ calls' = << >>
               /\ lastOp' = OpCopy("lo_import", superuser, FALSE, FALSE, 0,
                                   InvalidOid, "superuser privilege")
          ELSE IF ~fileOk
          THEN /\ calls' = << open >>
               /\ lastOp' = OpCopy("lo_import", superuser, FALSE, FALSE, 0,
                                   InvalidOid, "can't open unix file")
          ELSE IF ~storeOk
          THEN /\ calls' = << open, create >>
               /\ lastOp' = OpCopy("lo_import", superuser, TRUE, FALSE, 0,
                                   InvalidOid, "can't create inv object")
          ELSE IF ~loop.ok
          THEN /\ calls' = << open, create >> \o loop.calls
               /\ lastOp' = OpCopy("lo_import", superuser, TRUE, TRUE, n,
                                   InvalidOid, "error while reading")
          ELSE /\ calls' = << open, create >> \o loop.calls \o
                              << Call("FileClose", NULL, cxt),
                                 Call("inv_close", CopyDesc, cxt) >>
               /\ lastOp' = OpCopy("lo_import", superuser, TRUE, TRUE, n,
                                   lobjOid, "none")
       /\ UNCHANGED <<cookies, fscxt, CurrentMemoryContext, live, badClose,
                      hookCleared, closedFd>>

(* lo_export: the superuser check, inv_open(lobjId, INV_READ), then         *)
(* PathNameOpenFile with O_CREAT | O_WRONLY | O_TRUNC between umask(0022)   *)
(* and umask(oumask), the copy loop, inv_close and FileClose; 1 is          *)
(* returned.  No context switch is made and fscxt is not touched.           *)
lo_export(superuser, lobjId, storeOk, fileOk, n, shortAt) ==
    LET cxt == CurrentMemoryContext
        invopen == CallArg("inv_open", IF storeOk THEN CopyDesc ELSE NULL, cxt,
                           lobjId)
        open == << CallArg("umask", NULL, cxt, ExportUmask),
                   CallArg("PathNameOpenFile", NULL, cxt,
                           IF fileOk THEN 1 ELSE -1),
                   CallArg("umask", NULL, cxt, BackendUmask) >>
        loop == ExportLoop(n, 1, shortAt, cxt)
    IN /\ IF ~Permitted(superuser)
          THEN /\ calls' = << >>
               /\ lastOp' = OpCopy("lo_export", superuser, FALSE, FALSE, 0,
                                   0, "superuser privilege")
          ELSE IF ~storeOk
          THEN /\ calls' = << invopen >>
               /\ lastOp' = OpCopy("lo_export", superuser, FALSE, FALSE, 0,
                                   0, "can't open inv object")
          ELSE IF ~fileOk
          THEN /\ calls' = << invopen >> \o open
               /\ lastOp' = OpCopy("lo_export", superuser, FALSE, TRUE, 0,
                                   0, "can't open unix file")
          ELSE IF ~loop.ok
          THEN /\ calls' = << invopen >> \o open \o loop.calls
               /\ lastOp' = OpCopy("lo_export", superuser, TRUE, TRUE, n,
                                   0, "error while writing")
          ELSE /\ calls' = << invopen >> \o open \o loop.calls \o
                              << Call("inv_close", CopyDesc, cxt),
                                 Call("FileClose", NULL, cxt) >>
               /\ lastOp' = OpCopy("lo_export", superuser, TRUE, TRUE, n,
                                   1, "none")
       /\ UNCHANGED <<cookies, fscxt, CurrentMemoryContext, live, badClose,
                      hookCleared, closedFd>>

(* The bulk-copy entry points next to the entry points that change the      *)
(* table and fscxt.                                                         *)
(* Inputs that a failing step does not reach are not enumerated: the file  *)
(* is opened only after the superuser check, the length and the copy loop's *)
(* faults matter only once both ends are open.                              *)
NextCopy ==
    \/ \E lobjId \in Oids, storeOk \in BOOLEAN, desc \in Descs \cup {NULL} :
           lo_open(lobjId, storeOk, desc)
    \/ \E fd \in FdInputs : lo_close(fd)
    \/ \E storeOk \in BOOLEAN, desc \in Descs \cup {NULL}, lobjId \in Oids :
           lo_creat(storeOk, desc, lobjId)
    \/ \E isCommit \in BOOLEAN : lo_commit(isCommit)
    \/ \E superuser \in BOOLEAN :
         \E fileOk \in (IF superuser THEN BOOLEAN ELSE {FALSE}) :
           \E storeOk \in (IF fileOk THEN BOOLEAN ELSE {FALSE}) :
             \E n \in (IF storeOk THEN CopySizes ELSE {0}),
                shortAt \in (IF storeOk THEN ShortAt ELSE {0}),
                readFailAt \in (IF storeOk THEN ReadFailAt ELSE {0}),
                lobjOid \in (IF storeOk THEN Oids ELSE {1}) :
               lo_import(superuser, fileOk, n, storeOk, lobjOid, shortAt,
                         readFailAt)
    \/ \E superuser \in BOOLEAN, lobjId \in Oids :
         \E storeOk \in (IF superuser THEN BOOLEAN ELSE {FALSE}) :
           \E fileOk \in (IF storeOk THEN BOOLEAN ELSE {FALSE}) :
             \E n \in (IF fileOk THEN CopySizes ELSE {0}),
                shortAt \in (IF fileOk THEN ShortAt ELSE {0}) :
               lo_export(superuser, lobjId, storeOk, fileOk, n, shortAt)

SpecCopy == Init /\ [][NextCopy]_vars

NextCleanFail ==
    \/ Next
    \/ \E failAt \in Slots : lo_commit_cleanindex_error(failAt)

SpecCleanFail == Init /\ [][NextCleanFail]_vars

TypeOK ==
    /\ cookies \in [Slots -> Descs \cup {NULL}]
    /\ fscxt \in {NullContext, "Filesystem"}
    /\ live \subseteq Descs


----------------------------------------------------------------------------
(* Vocabulary of the properties                                             *)

AllEmpty(ck) == \A i \in Slots : ck[i] = NULL
Full(ck) == \A i \in Slots : ck[i] # NULL
FreeSlots(ck) == {i \in Slots : ck[i] = NULL}
StreamOps == {"lo_read", "lo_write", "lo_lseek", "lo_tell", "lo_close"}
StoreFn(op) ==
    CASE op = "lo_read" -> "inv_read"
      [] op = "lo_write" -> "inv_write"
      [] op = "lo_lseek" -> "inv_seek"
      [] op = "lo_tell" -> "inv_tell"
      [] op = "lo_close" -> "inv_close"
      [] OTHER -> "none"
OutOfRangeError == "out of range"
InvalidHandleError == "invalid large obj descriptor"
CallsOf(cs, fn) == {k \in 1 .. Len(cs) : cs[k].fn = fn}
CallsOn(cs, fn, d) == {k \in 1 .. Len(cs) : cs[k].fn = fn /\ cs[k].desc = d}

(* C1: a step of lo_commit, with either flag, ends with every slot NULL and *)
(* fscxt NULL, so each handle valid before it is rejected as invalid by     *)
(* read/write/seek/tell/close; all slots stay NULL until an lo_open whose   *)
(* inv_open succeeds, and that lo_open creates fscxt again when it is NULL  *)
(* and returns handle 0.                                                    *)
C1_HookInvalidatesAllHandles ==
    [][ /\ lastOp'.op = "lo_commit" =>
              AllEmpty(cookies') /\ fscxt' = NullContext
        /\ (lastOp.op = "lo_commit" /\ lastOp'.op \in StreamOps
              /\ lastOp'.fd \in Slots) =>
              /\ lastOp'.err = InvalidHandleError
              /\ calls' = << >>
              /\ cookies' = cookies
        /\ (AllEmpty(cookies) /\ ~(lastOp'.op = "lo_open" /\ lastOp'.storeOk)) =>
              AllEmpty(cookies')
        /\ (AllEmpty(cookies) /\ lastOp'.op = "lo_open" /\ lastOp'.storeOk) =>
              /\ lastOp'.result = 0
              /\ fscxt' = "Filesystem"
              /\ cookies'[0] = calls'[1].desc
      ]_vars

C1_Witness ==
    /\ lastOp.op = "lo_commit"
    /\ Cardinality(hookCleared) = MAX_LOBJ_FDS
    /\ AllEmpty(cookies)
    /\ fscxt = NullContext

(* C2: after lo_commit with the abort flag no inv_cleanindex call was made  *)
(* and every slot is NULL.                                                  *)
C2_AbortMakesNoCleanupCall ==
    (lastOp.op = "lo_commit" /\ ~lastOp.flag) =>
        /\ CallsOf(calls, "inv_cleanindex") = {}
        /\ AllEmpty(cookies)

C2_Witness ==
    /\ lastOp.op = "lo_commit"
    /\ ~lastOp.flag
    /\ Cardinality(hookCleared) = 2

(* C3: lo_commit with the commit flag calls inv_cleanindex exactly once on  *)
(* the descriptor of each slot occupied when it starts, makes no other      *)
(* call, and so none on a descriptor that lo_close has released.            *)
C3_CommitCleansEachOccupiedSlotOnce ==
    [][ (lastOp'.op = "lo_commit" /\ lastOp'.flag) =>
            /\ \A d \in Descs :
                  Cardinality(CallsOn(calls', "inv_cleanindex", d)) =
                      IF \E i \in Slots : cookies[i] = d THEN 1 ELSE 0
            /\ Len(calls') = Cardinality(Slots \ FreeSlots(cookies))
            /\ \A k \in 1 .. Len(calls') : calls'[k].desc \in live
      ]_vars

C3_Witness ==
    /\ lastOp.op = "lo_commit"
    /\ lastOp.flag
    /\ Len(calls) = 1
    /\ Cardinality(hookCleared) = 1
    /\ closedFd # {}

(* C4: on a full table an lo_open whose inv_open succeeds returns -1 and    *)
(* changes no slot; an lo_close on a full table frees exactly its slot; and *)
(* with exactly one slot free such an lo_open returns that slot's index and *)
(* leaves the table full.                                                   *)
C4_FullTableAndOneFreedSlot ==
    [][ /\ (Full(cookies) /\ lastOp'.op = "lo_open" /\ lastOp'.storeOk) =>
              lastOp'.result = -1 /\ cookies' = cookies
        /\ (Full(cookies) /\ lastOp'.op = "lo_close" /\ lastOp'.err = "none") =>
              FreeSlots(cookies') = {lastOp'.fd}
        /\ \A h \in Slots :
              (FreeSlots(cookies) = {h} /\ lastOp'.op = "lo_open"
                 /\ lastOp'.storeOk) =>
                 lastOp'.result = h /\ Full(cookies')
      ]_vars

(* The table is full again after an lo_open succeeded, and one descriptor   *)
(* more than the table holds is allocated: an earlier lo_open found the     *)
(* table full, and a slot was closed since.                                 *)
C4_Witness ==
    /\ lastOp.op = "lo_open"
    /\ lastOp.storeOk
    /\ lastOp.result >= 0
    /\ Full(cookies)
    /\ Cardinality(live) = MAX_LOBJ_FDS + 1

(* C5: lo_close on a handle that lo_close has already closed, with no       *)
(* lo_open returning it in between, fails as an invalid descriptor, calls   *)
(* no store routine and changes no slot.                                    *)
C5_SecondCloseRejected ==
    [][ (lastOp'.op = "lo_close" /\ lastOp'.fd \in closedFd) =>
            /\ lastOp'.err = InvalidHandleError
            /\ lastOp'.result = -3
            /\ calls' = << >>
            /\ cookies' = cookies
            /\ live' = live
      ]_vars

C5_Witness ==
    /\ lastOp.op = "lo_close"
    /\ lastOp.err = InvalidHandleError
    /\ lastOp.fd \in closedFd

(* C6: the descriptor lo_open registers under the handle it returns stays   *)
(* in that slot across every step other than lo_close of that handle and    *)
(* lo_commit, and read/write/seek/tell/close on the handle make exactly one *)
(* store call, on that descriptor.                                          *)
C6_HandleKeepsItsDescriptor ==
    [][ /\ (lastOp'.op = "lo_open" /\ lastOp'.result >= 0) =>
              cookies'[lastOp'.result] = calls'[1].desc
        /\ \A h \in Slots : cookies[h] # NULL =>
              /\ (~(lastOp'.op = "lo_close" /\ lastOp'.fd = h)
                    /\ lastOp'.op # "lo_commit") => cookies'[h] = cookies[h]
              /\ (lastOp'.op \in StreamOps /\ lastOp'.fd = h) =>
                    /\ Len(calls') = 1
                    /\ calls'[1].fn = StoreFn(lastOp'.op)
                    /\ calls'[1].desc = cookies[h]
      ]_vars

C6_Witness ==
    /\ lastOp.op \in {"lo_read", "lo_write", "lo_lseek", "lo_tell"}
    /\ lastOp.err = "none"
    /\ lastOp.fd = 1
    /\ cookies[0] = NULL
    /\ 0 \in closedFd
    /\ calls[1].desc = cookies[1]

(* C7: read/write/seek/tell/close fail as out of range when fd is outside   *)
(* 0 .. MAX_LOBJ_FDS-1 and as an invalid descriptor when fd is in range and *)
(* its slot is NULL; in both cases no store routine is called and no slot   *)
(* changes.  The fd is accepted exactly when its slot is not NULL.          *)
C7_HandleValidation ==
    [][ lastOp'.op \in StreamOps =>
            /\ lastOp'.fd \notin Slots =>
                  /\ lastOp'.err = OutOfRangeError
                  /\ lastOp'.result = -2
                  /\ calls' = << >>
                  /\ cookies' = cookies
            /\ (lastOp'.fd \in Slots /\ cookies[lastOp'.fd] = NULL) =>
                  /\ lastOp'.err = InvalidHandleError
                  /\ lastOp'.result = -3
                  /\ calls' = << >>
                  /\ cookies' = cookies
            /\ lastOp'.err = "none" <=>
                  (lastOp'.fd \in Slots /\ cookies[lastOp'.fd] # NULL)
      ]_vars

C7_Witness ==
    /\ lastOp.op \in StreamOps
    /\ lastOp.err = InvalidHandleError
    /\ lastOp.fd \in Slots
    /\ \E i \in Slots : cookies[i] # NULL

(* C8: an lo_open that fails because inv_open returned NULL and an lo_open  *)
(* that fails because no slot was free never return the same value.         *)
C8_ExhaustionDistinctFromStoreFailure ==
    [][ (lastOp.op = "lo_open" /\ ~lastOp.storeOk
           /\ lastOp'.op = "lo_open" /\ lastOp'.storeOk /\ Full(cookies)) =>
            lastOp'.result # lastOp.result
      ]_vars

(* C9: when lo_open got a descriptor from inv_open and no slot was free, it *)
(* has called inv_close on that descriptor, which is no longer allocated.   *)
C9_ExhaustedOpenReleasesDescriptor ==
    (lastOp.op = "lo_open" /\ lastOp.storeOk /\ lastOp.result < 0) =>
        /\ CallsOn(calls, "inv_close", calls[1].desc) # {}
        /\ calls[1].desc \notin live

(* C10: every registered descriptor is allocated and not yet released, and  *)
(* no two slots hold the same one; it leaves its slot either by an lo_close *)
(* of its handle, which calls inv_close on it once, or by lo_commit, which  *)
(* makes no inv_close call; inv_close is never called on a descriptor that  *)
(* is already released; and after lo_commit no descriptor is registered or  *)
(* allocated.                                                               *)
C10_ReleasedExactlyOnce ==
    [][ /\ ~badClose'
        /\ \A h \in Slots : cookies'[h] # NULL =>
              /\ cookies'[h] \in live'
              /\ \A g \in Slots : cookies'[g] = cookies'[h] => g = h
        /\ \A h \in Slots : (cookies[h] # NULL /\ cookies'[h] # cookies[h]) =>
              \/ /\ lastOp'.op = "lo_close" /\ lastOp'.fd = h
                 /\ calls' = << Call("inv_close", cookies[h], fscxt) >>
                 /\ cookies'[h] = NULL
                 /\ cookies[h] \notin live'
              \/ /\ lastOp'.op = "lo_commit"
                 /\ CallsOf(calls', "inv_close") = {}
                 /\ cookies'[h] = NULL
        /\ \A h \in Slots : cookies[h] # NULL =>
              Cardinality(CallsOn(calls', "inv_close", cookies[h])) <= 1
        /\ lastOp'.op = "lo_commit" => AllEmpty(cookies') /\ live' = {}
      ]_vars

C10_Witness ==
    /\ lastOp.op = "lo_commit"
    /\ Cardinality(hookCleared) = 1
    /\ closedFd # {}
    /\ AllEmpty(cookies)
    /\ live = {}


(* C11: whenever lo_commit was run with the commit flag and inv_cleanindex  *)
(* failed on an occupied slot, every slot is NULL and fscxt is NULL when    *)
(* lo_commit has ended.                                                     *)
C11_HookCompletesDespiteCleanupFailure ==
    (lastOp.op = "lo_commit" /\ lastOp.flag
       /\ lastOp.err = "inv_cleanindex error") =>
        AllEmpty(cookies) /\ fscxt = NullContext


(* C12: lo_creat changes no slot; when inv_create succeeds it makes exactly *)
(* the calls inv_create and then inv_close on the descriptor inv_create     *)
(* returned, which is not left allocated, and returns the object's oid;     *)
(* when inv_create fails it returns InvalidOid and calls no inv_close.      *)
C12_CreateLeavesNoHandle ==
    [][ lastOp'.op = "lo_creat" =>
            /\ cookies' = cookies
            /\ lastOp'.storeOk =>
                  /\ Len(calls') = 2
                  /\ calls'[1].fn = "inv_create" /\ calls'[1].desc # NULL
                  /\ calls'[2].fn = "inv_close"
                  /\ calls'[2].desc = calls'[1].desc
                  /\ calls'[1].desc \notin live'
                  /\ lastOp'.result = OidOf(calls'[1].desc)
                  /\ lastOp'.result # InvalidOid
            /\ ~lastOp'.storeOk =>
                  /\ lastOp'.result = InvalidOid
                  /\ CallsOf(calls', "inv_close") = {}
      ]_vars

C12_Witness ==
    /\ lastOp.op = "lo_creat"
    /\ lastOp.storeOk
    /\ Len(calls) = 2
    /\ cookies[0] # NULL
    /\ cookies[1] = NULL


PermissionError == "superuser privilege"
Writes == SelectSeq(calls, LAMBDA c : c.fn = "inv_write")
Reads == SelectSeq(calls, LAMBDA c : c.fn = "FileRead")
RECURSIVE SumArgs(_)
SumArgs(cs) == IF cs = << >> THEN 0 ELSE Head(cs).arg + SumArgs(Tail(cs))
CeilDiv(a, b) == (a + b - 1) \div b

(* C13: lo_export and lo_import called without superuser privilege, in a    *)
(* build without ALLOW_DANGEROUS_LO_FUNCTIONS, raise the privilege error    *)
(* having made no call at all: no inv_open or inv_create, no umask, no      *)
(* PathNameOpenFile.                                                        *)
C13_NoPrivilegeNoSideEffect ==
    (lastOp.op \in {"lo_import", "lo_export"} /\ ~lastOp.superuser
       /\ ~ALLOW_DANGEROUS_LO_FUNCTIONS) =>
        /\ lastOp.err = PermissionError
        /\ calls = << >>

C13_Witness ==
    /\ lastOp.op = "lo_export"
    /\ ~lastOp.superuser
    /\ lastOp.err = PermissionError
    /\ calls = << >>

(* C14: an lo_import of an n-byte file in which no FileRead failed and that *)
(* returned has made CeilDiv(n, BUFSIZE) inv_write calls, each of 1 to      *)
(* BUFSIZE bytes and all but the last of BUFSIZE bytes, n bytes in all, and *)
(* one FileRead more than that, the last one returning 0; in every          *)
(* lo_import, only the last FileRead returned 0 or less.                    *)
C14_ImportChunks ==
    lastOp.op = "lo_import" =>
        /\ \A k \in 1 .. Len(Reads) : Reads[k].arg <= 0 => k = Len(Reads)
        /\ (lastOp.err = "none" /\ \A k \in 1 .. Len(Reads) : Reads[k].arg >= 0) =>
              /\ Len(Writes) = CeilDiv(lastOp.n, BUFSIZE)
              /\ \A k \in 1 .. Len(Writes) :
                    /\ Writes[k].arg >= 1 /\ Writes[k].arg <= BUFSIZE
                    /\ k < Len(Writes) => Writes[k].arg = BUFSIZE
                    /\ Writes[k].arg = Reads[k].arg
              /\ SumArgs(Writes) = lastOp.n
              /\ Len(Reads) = Len(Writes) + 1
              /\ Reads[Len(Reads)].arg = 0

C14_Witness ==
    /\ lastOp.op = "lo_import"
    /\ lastOp.err = "none"
    /\ lastOp.n = 5000
    /\ Len(Writes) = 5
    /\ \A k \in 1 .. 4 : Writes[k].arg = 1024
    /\ Writes[5].arg = 904
    /\ Reads[6].arg = 0


(* C15: a slot that is not NULL implies that fscxt is not NULL and that the *)
(* slot's descriptor is still allocated in it; so lo_close, lo_read,        *)
(* lo_write and lo_lseek, once the fd has passed the checks, find fscxt     *)
(* set (their Assert holds) and make their store call inside it.            *)
C15_OccupiedSlotImpliesArena ==
    /\ \A i \in Slots : cookies[i] # NULL =>
          fscxt # NullContext /\ cookies[i] \in live
    /\ fscxt = NullContext => AllEmpty(cookies) /\ live = {}
    /\ (lastOp.op \in {"lo_close", "lo_read", "lo_write", "lo_lseek"}
          /\ lastOp.err = "none") =>
          fscxt # NullContext /\ calls[1].cxt = fscxt

C15_Witness ==
    /\ lastOp.op \in {"lo_close", "lo_read", "lo_write", "lo_lseek"}
    /\ lastOp.err = "none"
    /\ fscxt = "Filesystem"
    /\ \E i \in Slots : cookies[i] # NULL

(* C16: an lo_open that returns a handle returns the lowest index whose     *)
(* slot was NULL, stores the descriptor inv_open returned there and leaves  *)
(* every other slot as it was.                                              *)
C16_FirstFit ==
    [][ (lastOp'.op = "lo_open" /\ lastOp'.result >= 0) =>
            /\ lastOp'.result \in Slots
            /\ cookies[lastOp'.result] = NULL
            /\ \A j \in Slots : j < lastOp'.result => cookies[j] # NULL
            /\ cookies'[lastOp'.result] = calls'[1].desc
            /\ \A j \in Slots : j # lastOp'.result => cookies'[j] = cookies[j]
            /\ \A j \in Slots : j # lastOp'.result =>
                  cookies'[j] # cookies'[lastOp'.result]
      ]_vars

(* Slot 0 was freed by lo_close while slot 1 stayed occupied, and lo_open   *)
(* took slot 0 again.                                                       *)
C16_Witness ==
    /\ lastOp.op = "lo_open"
    /\ lastOp.result = 0
    /\ cookies[1] # NULL

(* C17: every inv_open, inv_create, inv_read, inv_write, inv_seek,          *)
(* inv_close and inv_cleanindex call, those of lo_import and lo_export      *)
(* included, is made while fscxt exists and is the active context, and the  *)
(* active context after an operation is the caller's.                       *)
C17_StoreCallsInsideArena ==
    /\ \A k \in 1 .. Len(calls) :
          calls[k].fn \in {"inv_open", "inv_create", "inv_read", "inv_write",
                           "inv_seek", "inv_close", "inv_cleanindex"} =>
              calls[k].cxt = "Filesystem"
    /\ CurrentMemoryContext = "TransactionCommandContext"

(* C18: fscxt goes from NULL to set only in lo_open and lo_creat, which     *)
(* always leave it set and keep it with everything allocated in it when it  *)
(* was already set; it goes from set to NULL only in lo_commit; and         *)
(* lo_commit with fscxt NULL changes no slot and makes no call.             *)
C18_ArenaLifecycle ==
    [][ /\ (fscxt = NullContext /\ fscxt' # NullContext) =>
              lastOp'.op \in {"lo_open", "lo_creat"}
        /\ lastOp'.op \in {"lo_open", "lo_creat"} => fscxt' = "Filesystem"
        /\ (fscxt # NullContext /\ lastOp'.op \in {"lo_open", "lo_creat"}) =>
              /\ fscxt' = fscxt
              /\ live \subseteq live'
              /\ hookCleared' = hookCleared
        /\ (fscxt # NullContext /\ fscxt' = NullContext) =>
              lastOp'.op = "lo_commit"
        /\ (fscxt # NullContext /\ lastOp'.op = "lo_commit") =>
              fscxt' = NullContext
        /\ (fscxt = NullContext /\ lastOp'.op = "lo_commit") =>
              /\ fscxt' = NullContext
              /\ cookies' = cookies
              /\ calls' = << >>
              /\ live' = live
              /\ hookCleared' = hookCleared
      ]_vars

(* lo_commit(true) made no call although descriptors were cleared by a      *)
(* hook in the life of the last fscxt: that hook deleted fscxt, and this    *)
(* lo_commit found it NULL.                                                 *)
C18_Witness ==
    /\ lastOp.op = "lo_commit"
    /\ lastOp.flag
    /\ calls = << >>
    /\ hookCleared # {}
    /\ fscxt = NullContext

(* C19: lo_unlink changes no slot, not fscxt and nothing allocated in it;   *)
(* after it, read/write/seek/tell/close on a handle whose descriptor is     *)
(* open on the dropped object are accepted and forwarded to that            *)
(* descriptor.                                                              *)
C19_UnlinkKeepsHandles ==
    [][ /\ lastOp'.op = "lo_unlink" =>
              /\ cookies' = cookies
              /\ fscxt' = fscxt
              /\ live' = live
              /\ Len(calls') = 1 /\ calls'[1].fn = "inv_drop"
        /\ \A h \in Slots :
              (lastOp.op = "lo_unlink" /\ cookies[h] # NULL
                 /\ OidOf(cookies[h]) = calls[1].arg
                 /\ lastOp'.op \in StreamOps /\ lastOp'.fd = h) =>
                 /\ lastOp'.err = "none"
                 /\ calls'[1].desc = cookies[h]
      ]_vars

C19_Witness ==
    /\ lastOp.op = "lo_unlink"
    /\ \E h \in Slots : cookies[h] # NULL /\ OidOf(cookies[h]) = calls[1].arg

====
